---- MODULE Spec2Model ----
(***************************************************************************)
(* FreqShow (WQ7T panadapter): the application model of model.py and the   *)
(* spectrogram views of views.py as a state machine.                       *)
(*                                                                         *)
(* Units.  Frequencies are integers in steps of 500 Hz (0.230 MHz = 460,   *)
(* 70.4515 MHz = 140903).  Intensities are integers in steps of 0.5 dB     *)
(* (-10 dB = -20).  FFT magnitudes are integers in steps of 0.1.           *)
(* Python floats that are not finite, and None, are the sentinels below;   *)
(* every arithmetic step of the code on such a value goes through the      *)
(* F* operators, which give IEEE-754 results.                              *)
(***************************************************************************)
EXTENDS Integers, Sequences, FiniteSets, TLC

\* ------------------------------------------------------------------ bounds
SDR_SAMPLE_SIZE == 10        \* freqshow.SDR_SAMPLE_SIZE, scaled down from 8192
ScaleCeil == 120             \* scale_up / scale_dn keep both bounds at or
ScaleDepth == 40             \* below 60 dB and at or above -20 dB
MaxFftAve == 2               \* largest averaging depth entered
MaxTune == 1                 \* tuning steps away from the initial frequency
PrecBits == 13               \* significand bits of a float, scaled down from 53
Height == 2                  \* FreqShowModel.height, the rows of the waterfall

\* --------------------------------------------------------------- sentinels
None == 777777
NegInf == -999999
PosInf == 999999
NaN == 888888

\* ------------------------------------------------------------ input domains
Widths == 1..(SDR_SAMPLE_SIZE - 1)
SampleRates == {460, 600, 1000, 2000}   \* 0.23, 0.30, 0.50 (rejected), 1.0 MHz
ZoomFacs == {100, 200, 460, 4000}       \* 0.05, 0.10, 0.23, 2.0 MHz
LoOffsets == {0, 60, -60, 20}           \* 0, +-0.03, 0.01 MHz
Mags == {0, 1, 10}                      \* |FFT| of 0, 0.1, 1.0
UserDb == {-20, 120, 1}                 \* -10, 60, 0.5 dB
FilterNames == {"boxcar", "kaiser", "flattop"}  \* flattop: no branch for it
PyBools == {"True", "False"}            \* the Python booleans
DialogStrs == {"'True'", "'False'"}     \* str(initial) of BooleanDialog

VARIABLES
  width,            \* FreqShowModel.width
  min_auto_scale, max_auto_scale,
  min_intensity, max_intensity, range,
  sdr_sample_rate,  \* self.sdr.sample_rate
  sdr_center_freq,  \* the tuner's frequency
  center_freq, lo_offset, zoom_fac, swap_iq, auto_gain,
  fft_ave, peak,
  filter,           \* FreqShowModel.filter, the window's name
  checkfirst, freqsfirst, freqgrabs,   \* InstantSpectrogram
  freqslast,        \* the frame the last render_spectrogram acquired first
  reduced, reduced_den,  \* the reduced spectrum is reduced[i] / reduced_den
  reinit,           \* the last render_spectrogram rebuilt the ring
  streak,           \* the frames acquired by the cycles since the last rebuild
  zero_line,        \* y of the 0 dB line the last render_spectrogram drew
  trace,            \* its trace: the segments <<x0, y0, x1, y1>> in order
  ret,              \* the frame the last get_data returned
  lextra, rextra, shifted_len,  \* the crop of the last get_data (-1: no crop)
  uncropped,        \* the magnitudes the last get_data cropped, in order
  window,           \* the window the last get_data multiplied the samples by
  zoom_first,       \* zoom as the last get_data first computed it
  zoom,             \* zoom as the last get_data used it for the read
  fft_len,          \* the number of samples the last get_data transformed
  waterfall,        \* WaterfallSpectrogram.waterfall, rows from the top
  frames,           \* the colour rows of the frames rendered since the canvas
                    \* was last filled, the newest last, at most Height
  handler,          \* the view's handler that ran last
  grad_colors,      \* the colour list a gradient_func call was given
  grad_value,       \* the value its colour function is applied to
  grad_colour,      \* what the colour function returned or raised
  reads,            \* the read_samples calls of the operation that led here
  running,          \* FALSE once an exception reached the main loop
  lastOp            \* the operation that produced this state

modelVars == <<width, min_auto_scale, max_auto_scale, min_intensity,
               max_intensity, range, sdr_sample_rate, sdr_center_freq,
               center_freq, lo_offset, zoom_fac, swap_iq, auto_gain,
               fft_ave, peak, filter>>
viewVars == <<checkfirst, freqsfirst, freqgrabs, freqslast, reduced,
              reduced_den, reinit, streak, zero_line, trace>>
obsVars == <<ret, lextra, rextra, shifted_len, uncropped, window, zoom_first,
             zoom, fft_len>>
waterVars == <<waterfall, frames, handler>>
gradVars == <<grad_colors, grad_value, grad_colour>>
vars == <<modelVars, viewVars, obsVars, waterVars, gradVars, reads, running,
          lastOp>>

\* gradients of two, three and four colours
Gradients == {<<<<0, 0, 255>>, <<0, 255, 255>>>>,
              <<<<0, 0, 255>>, <<0, 255, 255>>, <<255, 255, 0>>>>,
              <<<<0, 0, 255>>, <<0, 255, 255>>, <<255, 255, 0>>, <<255, 0, 0>>>>}

\* values are n / GradDen for n in -2 .. GradDen + 2, the float below 1.0,
\* the powers of a pixel, infinities and nan
GradDen == 24

\* ------------------------------------------------------------ arithmetic
Min2(a, b) == IF a < b THEN a ELSE b
Max2(a, b) == IF a > b THEN a ELSE b
Abs(x) == IF x < 0 THEN -x ELSE x

\* int(a / b) for b > 0: truncation toward zero
TruncDiv(a, b) == IF a >= 0 THEN a \div b ELSE -((-a) \div b)

IsFinite(x) == x \notin {None, NegInf, PosInf, NaN}

\* a - b on floats
FSub(a, b) ==
  IF a = NaN \/ b = NaN THEN NaN
  ELSE IF a = PosInf THEN (IF b = PosInf THEN NaN ELSE PosInf)
  ELSE IF a = NegInf THEN (IF b = NegInf THEN NaN ELSE NegInf)
  ELSE IF b = PosInf THEN NegInf
  ELSE IF b = NegInf THEN PosInf
  ELSE a - b

\* a + b on floats
FAdd(a, b) ==
  IF a = NaN \/ b = NaN THEN NaN
  ELSE IF a = PosInf THEN (IF b = NegInf THEN NaN ELSE PosInf)
  ELSE IF a = NegInf THEN (IF b = PosInf THEN NaN ELSE NegInf)
  ELSE IF b \in {PosInf, NegInf} THEN b
  ELSE a + b

\* Python's min(a, b) and max(a, b): the first argument unless the second wins
PyMin(a, b) == IF b < a THEN b ELSE a
PyMax(a, b) == IF b > a THEN b ELSE a

\* ------------------------------------------------------------ floats
\* The colour arithmetic of views.py runs on Python floats, and its results
\* depend on the rounding.  A float is [k, m, e]: the number m * 2^e when k
\* is "num", with m = 0 or 2^(PrecBits-1) <= |m| < 2^PrecBits; an infinity
\* of the sign of m when k is "inf"; not a number when k is "nan".  Every
\* operation rounds its exact result to nearest, ties to even.
Fl(m, e) == [k |-> "num", m |-> m, e |-> e]
FlNaN == [k |-> "nan", m |-> 0, e |-> 0]
FlInf(sign) == [k |-> "inf", m |-> sign, e |-> 0]

Sign(x) == IF x < 0 THEN -1 ELSE 1

\* n / d * 2^e for integers n >= 0 and d > 0, rounded
RECURSIVE FlRound(_, _, _)
FlRound(n, d, e) ==
  IF n = 0 THEN Fl(0, 0)
  ELSE IF n < d * 2^(PrecBits - 1) THEN FlRound(2 * n, d, e - 1)
  ELSE IF n >= d * 2^PrecBits THEN FlRound(n, 2 * d, e + 1)
  ELSE LET q == n \div d
           r == n % d
           up == 2 * r > d \/ (2 * r = d /\ q % 2 = 1)
       IN  IF ~up THEN Fl(q, e)
           ELSE IF q + 1 = 2^PrecBits THEN Fl(2^(PrecBits - 1), e + 1)
           ELSE Fl(q + 1, e)

FlNeg(a) == [a EXCEPT !.m = -a.m]

FlSigned(sign, a) == IF sign < 0 THEN FlNeg(a) ELSE a

\* float(n) of an integer n
FlInt(n) == FlSigned(Sign(n), FlRound(Abs(n), 1, 0))

\* a < b and a <= b (every comparison with nan is False)
FlLess(a, b) ==
  /\ a.k # "nan" /\ b.k # "nan"
  /\ IF a.k = "inf" THEN a.m < 0 /\ ~(b.k = "inf" /\ b.m < 0)
     ELSE IF b.k = "inf" THEN b.m > 0
     ELSE LET e == Min2(a.e, b.e)
          IN  a.m * 2^(a.e - e) < b.m * 2^(b.e - e)

FlLessEq(a, b) == a.k # "nan" /\ b.k # "nan" /\ ~FlLess(b, a)

\* a + b, a - b, a * b, a / b on numbers, b # 0 in a / b
FlPlus(a, b) ==
  LET e == Min2(a.e, b.e)
      n == a.m * 2^(a.e - e) + b.m * 2^(b.e - e)
  IN  FlSigned(Sign(n), FlRound(Abs(n), 1, e))

FlMinus(a, b) == FlPlus(a, FlNeg(b))

FlTimes(a, b) ==
  FlSigned(Sign(a.m) * Sign(b.m), FlRound(Abs(a.m) * Abs(b.m), 1, a.e + b.e))

FlDivide(a, b) ==
  FlSigned(Sign(a.m) * Sign(b.m), FlRound(Abs(a.m), Abs(b.m), a.e - b.e))

\* a % b for a >= 0 and b > 0: the remainder is exact
FlMod(a, b) ==
  LET e == Min2(a.e, b.e)
  IN  FlRound((a.m * 2^(a.e - e)) % (b.m * 2^(b.e - e)), 1, e)

\* math.floor(a) and, for a >= 0, int(a)
FlFloor(a) == IF a.e >= 0 THEN a.m * 2^a.e ELSE a.m \div 2^(-a.e)

\* the float of an intensity x (a number, inf, -inf or nan)
ToFl(x) ==
  IF x = NaN THEN FlNaN
  ELSE IF x = PosInf THEN FlInf(1)
  ELSE IF x = NegInf THEN FlInf(-1)
  ELSE FlInt(x)

\* a - b, a / b and a * b of numpy floats: a division by zero gives inf or
\* nan and a warning, never an exception
NpMinus(a, b) ==
  IF a.k = "nan" \/ b.k = "nan" THEN FlNaN
  ELSE IF a.k = "inf" THEN (IF b.k = "inf" /\ b.m = a.m THEN FlNaN ELSE a)
  ELSE IF b.k = "inf" THEN FlInf(-b.m)
  ELSE FlMinus(a, b)

NpDivide(a, b) ==
  IF a.k = "nan" \/ b.k = "nan" THEN FlNaN
  ELSE IF a.k = "inf"
  THEN (IF b.k = "inf" THEN FlNaN ELSE FlInf(a.m * Sign(b.m)))
  ELSE IF b.k = "inf" THEN Fl(0, 0)
  ELSE IF b.m = 0 THEN (IF a.m = 0 THEN FlNaN ELSE FlInf(Sign(a.m)))
  ELSE FlDivide(a, b)

NpTimes(a, b) ==
  IF a.k = "nan" \/ b.k = "nan" THEN FlNaN
  ELSE IF a.k = "inf" \/ b.k = "inf"
  THEN (IF a.m = 0 \/ b.m = 0 THEN FlNaN ELSE FlInf(Sign(a.m) * Sign(b.m)))
  ELSE FlTimes(a, b)

\* abs(a)
FlAbs(a) == IF a.m < 0 THEN [a EXCEPT !.m = -a.m] ELSE a

\* ---------------------------------------------------- colour gradient
WATERFALL_GRAD == <<<<0, 0, 255>>, <<0, 255, 255>>, <<255, 255, 0>>, <<255, 0, 0>>>>
MAIN_BG == <<5, 45, 45>>
BLACK == <<0, 0, 0>>

lerp(x, x0, x1, y0, y1) ==
  FlPlus(y0, FlTimes(FlMinus(y1, y0), FlDivide(FlMinus(x, x0), FlMinus(x1, x0))))

rgb_lerp_Ceil(x, x0, x1, c0, c1) ==
  [ch \in 1..3 |->
     -FlFloor(FlNeg(lerp(x, x0, x1, FlInt(c0[ch]), FlInt(c1[ch]))))]
rgb_lerp(x, x0, x1, c0, c1) ==
  [ch \in 1..3 |-> FlFloor(lerp(x, x0, x1, FlInt(c0[ch]), FlInt(c1[ch])))]

grad_width(colors) == FlDivide(FlInt(1), FlMinus(FlInt(Len(colors)), FlInt(1)))

\* int(value / grad_width), the index of colors (from 0) the lookup starts at
GradPos(colors, value) == FlFloor(FlDivide(value, grad_width(colors)))

\* (value % grad_width) / grad_width, the place of value in its segment
GradX(colors, value) ==
  FlDivide(FlMod(value, grad_width(colors)), grad_width(colors))

\* the function gradient_func(colors) returns, applied to value: the colour,
\* or the exception the call ends with
color_func(colors, value) ==
  IF FlLessEq(value, FlInt(0))
  THEN [err |-> "", pos |-> None, colour |-> colors[1]]
  ELSE IF FlLessEq(FlInt(1), value)
  THEN [err |-> "", pos |-> None, colour |-> colors[Len(colors)]]
  ELSE IF value.k # "num"
  THEN [err |-> "ValueError", pos |-> None, colour |-> BLACK]
  ELSE IF GradPos(colors, value) + 2 > Len(colors)
  THEN [err |-> "IndexError", pos |-> GradPos(colors, value), colour |-> BLACK]
  ELSE [err |-> "", pos |-> GradPos(colors, value),
        colour |-> rgb_lerp(GradX(colors, value), FlInt(0), FlInt(1),
                            colors[GradPos(colors, value) + 1],
                            colors[GradPos(colors, value) + 2])]

clamp(x, x0, x1) == IF FlLess(x1, x) THEN x1 ELSE IF FlLess(x, x0) THEN x0 ELSE x

\* (v - mn) / rg of render_spectrogram, v an intensity of the frame
Normalise(v, mn, rg) ==
  IF FSub(v, mn) = NaN \/ rg = NaN THEN FlNaN
  ELSE IF ~IsFinite(FSub(v, mn))
  THEN (IF ~IsFinite(rg) THEN FlNaN ELSE FlInf(Sign(FSub(v, mn)) * Sign(rg)))
  ELSE IF ~IsFinite(rg) THEN Fl(0, 0)
  ELSE IF rg = 0
  THEN (IF FSub(v, mn) = 0 THEN FlNaN ELSE FlInf(Sign(FSub(v, mn))))
  ELSE FlSigned(Sign(FSub(v, mn)) * Sign(rg),
                FlRound(Abs(FSub(v, mn)), Abs(rg), 0))

\* a surface of w columns filled with the colour c
Canvas(w, c) == [y \in 1..Height |-> [x \in 1..w |-> c]]

\* the power render_spectrogram hands to the colour function
Power(v, mn, rg) == clamp(Normalise(v, mn, rg), FlInt(0), FlInt(1))

\* the float nearest to n / d
FlRatio(n, d) == FlSigned(Sign(n), FlRound(Abs(n), d, 0))

\* the largest float below 1.0
BelowOne == Fl(2^PrecBits - 1, -PrecBits)

PixelDb == {-120, -100, -60, 0, 20, NegInf, NaN}

GradValues ==
  {FlRatio(n, GradDen) : n \in (-2)..(GradDen + 2)}
    \cup {BelowOne, FlNaN, FlInf(1), FlInf(-1)}
    \cup {Power(v, -120, 120) : v \in PixelDb}

\* ------------------------------------------------------------- sequences
Reverse(s) == [i \in 1..Len(s) |-> s[Len(s) + 1 - i]]

\* a slice bound of Python for a sequence of length n
PyBound(i, n) == IF i < 0 THEN Max2(i + n, 0) ELSE Min2(i, n)

\* s[a:b]
PySlice(s, a, b) ==
  LET lo == PyBound(a, Len(s))
      hi == PyBound(b, Len(s))
  IN  IF hi <= lo THEN <<>> ELSE SubSeq(s, lo + 1, hi)

\* np.fft.fftshift: rotate right by floor(n / 2)
FftShift(s) ==
  LET n == Len(s)
      k == n - (n \div 2)
  IN  SubSeq(s, k + 1, n) \o SubSeq(s, 1, k)

RECURSIVE NpMin(_)
NpMin(s) == IF Len(s) = 1 THEN s[1] ELSE Min2(s[1], NpMin(Tail(s)))

RECURSIVE NpMax(_)
NpMax(s) == IF Len(s) = 1 THEN s[1] ELSE Max2(s[1], NpMax(Tail(s)))

\* 20.0 * np.log10(m), m a magnitude in tenths, the result in half dB
Db(m) ==
  CASE m = 0 -> NegInf
    [] m = 1 -> -40
    [] m = 10 -> 0
    [] m = 100 -> 40

ToDb(s) == [i \in 1..Len(s) |-> Db(s[i])]

\* the magnitude spectra a device read can produce, n bins: two levels in
\* alternation, so that every crop of two bins sees both
Spectra(n) ==
  {[i \in 1..n |-> IF i % 2 = 1 THEN a ELSE b] : a \in Mags, b \in Mags}

ConstSpectra(n) == {[i \in 1..n |-> 10]}

\* a flat spectrum and one that tells odd from even positions
CropSpectra(n) ==
  ConstSpectra(n) \cup {[i \in 1..n |-> IF i % 2 = 1 THEN 1 ELSE 10]}

\* fewer of them, for the history ring
StepSpectra(n) ==
  {[i \in 1..n |-> IF i % 2 = 1 THEN a ELSE 100] : a \in Mags}

\* ------------------------------------------------- FreqShowModel.get_data
\* the zoom bin count for a zoom span zf (get_data and get_freq_step)
ZoomBins(zf) ==
  IF zf < sdr_sample_rate THEN (width * sdr_sample_rate) \div zf ELSE width

\* the zoom span the same branch leaves in self.zoom_fac
ZoomSpan_Keep(zf) == zf
ZoomSpan(zf) == IF zf < sdr_sample_rate THEN zf ELSE sdr_sample_rate

\* the guard of the device read
ZoomFits(z) == z < SDR_SAMPLE_SIZE

ReadZoom(zf) == IF ZoomFits(ZoomBins(zf)) THEN ZoomBins(zf) ELSE width

ReadSpan(zf) ==
  IF ZoomFits(ZoomBins(zf)) THEN ZoomSpan(zf) ELSE sdr_sample_rate

\* len(read_samples(SDR_SAMPLE_SIZE)[0:zoom+2]), the length of the FFT
ReadLen(zf) == Min2(SDR_SAMPLE_SIZE, ReadZoom(zf) + 2)

\* get_freq_step returns sample_rate / FreqStepBins
FreqStepBins(zf) == ZoomBins(zf) + 2

\* int(lo_offset * 1000000 / freq_step)
ShiftSweep(zf) == TruncDiv(lo_offset * FreqStepBins(zf), sdr_sample_rate)

\* int((freqs.size - width) / 2), taken only when freqs.size > width
ExtraSamples(n) == (n - width) \div 2

HasRoom_Boundary(n, zf) == ExtraSamples(n) >= Abs(ShiftSweep(zf))
HasRoom(n, zf) == ExtraSamples(n) > Abs(ShiftSweep(zf))

\* lextra; None when neither branch of the swap_iq test assigns it
LExtra(n, zf) ==
  IF HasRoom(n, zf)
  THEN IF swap_iq = "True" THEN ExtraSamples(n) + ShiftSweep(zf)
       ELSE IF swap_iq = "False" THEN ExtraSamples(n) - ShiftSweep(zf)
       ELSE None
  ELSE ExtraSamples(n)

RExtra(n, lx) == n - (lx + width)

\* the running bounds of an axis in auto mode
UpdateMin_Replace(cur, frameMin) == frameMin
UpdateMin(cur, frameMin) ==
  IF cur = None THEN frameMin ELSE PyMin(frameMin, cur)

UpdateMax(cur, frameMax) ==
  IF cur = None THEN frameMax ELSE PyMax(frameMax, cur)

\* the bound get_data leaves on an axis
NewMin_Always(auto, cur, frameMin) == UpdateMin(cur, frameMin)
NewMin(auto, cur, frameMin) ==
  IF auto THEN UpdateMin(cur, frameMin) ELSE cur

NewMax(auto, cur, frameMax) ==
  IF auto THEN UpdateMax(cur, frameMax) ELSE cur

\* the window get_data multiplies the samples by: the scipy.signal window
\* of the name, or the number 1
WindowNames == {"kaiser", "boxcar", "hann", "hamming", "blackman",
                "blackmanharris", "bartlett", "barthann", "nuttall"}

Window(name) == IF name \in WindowNames THEN name ELSE "1"

\* the spectrum get_data works on: the FFT magnitudes without the two end
\* bins, reversed under swap_iq, then shifted
Spectrum(mags) ==
  LET bins == PySlice(mags, 1, -1)
  IN  FftShift(IF swap_iq = "True" THEN Reverse(bins) ELSE bins)

\* the crop of a spectrum of n bins down to width: crop, the branch is
\* taken; unbound, lextra was never assigned
CropOffsets(n, span) ==
  LET crop == n > width
      lx == IF crop THEN LExtra(n, span) ELSE -1
      unbound == crop /\ lx = None
  IN  [crop |-> crop,
       unbound |-> unbound,
       lx |-> lx,
       rx |-> IF crop /\ ~unbound THEN RExtra(n, lx) ELSE -1]

\* freqs[lextra:-rextra]
Cropped(shifted, c) ==
  IF c.crop /\ ~c.unbound THEN PySlice(shifted, c.lx, -c.rx) ELSE shifted

\* the dB conversion and the auto-scale update on the frame freqs, and the
\* record of what the call wrote and returned
AutoScale(span, mn, mx, rg, n, c, freqs) ==
  LET empty == Len(freqs) = 0 /\ (min_auto_scale \/ max_auto_scale)
      bad == c.unbound \/ empty
      mn2 == IF bad THEN mn ELSE NewMin(min_auto_scale, mn, NpMin(freqs))
      mx2 == IF bad THEN mx ELSE NewMax(max_auto_scale, mx, NpMax(freqs))
  IN  [err |-> bad,
       zoom_fac |-> IF c.crop THEN ZoomSpan(span) ELSE span,
       min_intensity |-> mn2,
       max_intensity |-> mx2,
       range |-> IF bad THEN rg ELSE FSub(mx2, mn2),
       freqs |-> IF bad THEN <<>> ELSE freqs,
       lextra |-> IF c.unbound THEN -1 ELSE c.lx,
       rextra |-> c.rx,
       len |-> n,
       cropped |-> c.crop /\ ~c.unbound]

CropAndScale(span, mn, mx, rg, shifted, c) ==
  AutoScale(span, mn, mx, rg, Len(shifted), c, ToDb(Cropped(shifted, c)))

CropSpectrum(span, mn, mx, rg, shifted) ==
  CropAndScale(span, mn, mx, rg, shifted, CropOffsets(Len(shifted), span))

\* One call of get_data with zoom span zf and bounds mn, mx, the FFT giving
\* the magnitudes mags.  err: an exception left the call (lextra unbound, or
\* np.min / np.max of an empty array), after zoom_fac was written.
get_data(zf, mn, mx, rg, mags) ==
  CropSpectrum(ReadSpan(zf), mn, mx, rg, Spectrum(mags))
    @@ [uncropped |-> Spectrum(mags),
        window |-> Window(filter),
        zoom_first |-> ZoomBins(zf),
        zoom |-> ReadZoom(zf),
        fft_len |-> Len(mags)]

\* _clear_intensity under the auto flags minAuto, maxAuto
ClearIntensity_KeepRange(minAuto, maxAuto, mn, mx, rg) ==
  [min_intensity |-> IF minAuto THEN None ELSE mn,
   max_intensity |-> IF maxAuto THEN None ELSE mx,
   range |-> rg]
ClearIntensity(minAuto, maxAuto, mn, mx, rg) ==
  [min_intensity |-> IF minAuto THEN None ELSE mn,
   max_intensity |-> IF maxAuto THEN None ELSE mx,
   range |-> None]

\* the tuner frequency set_center_freq asks for:
\* (sample_rate/zoom_fac)/2 > (lo_offset/zoom_fac) - (zoom_fac/2), in MHz
TunerFreq(value) ==
  IF 2000 * sdr_sample_rate > 4000 * lo_offset - zoom_fac * zoom_fac
  THEN value + lo_offset
  ELSE value

\* set_sample_rate accepts .225001 <= r <= .3 or .900001 <= r <= 3.2 MHz
RateAccepted(r) == (451 <= r /\ r <= 600) \/ (1801 <= r /\ r <= 6400)

\* '{0:0.0f}'.format(x): x in half dB, the result in dB, ties to even
Format0(x) ==
  IF x % 2 = 0 THEN x \div 2
  ELSE LET q == (x - 1) \div 2 IN IF q % 2 = 0 THEN q ELSE q + 1

\* --------------------------------------------------------- initial state
\* self.fft_ave after set_fft_ave took its else branch: the bound method
\* get_fft_ave itself
GetFftAveMethod == -1

Tile(frame, rows) == [k \in 1..rows |-> frame]

\* no 0 dB line was drawn yet
NoLine == [k |-> "none", m |-> 0, e |-> 0]

\* what the get_data call of InstantSpectrogram.__init__ leaves, r its result
FirstFrame(r) ==
  /\ zoom_fac = r.zoom_fac
  /\ range = r.range
  /\ freqsfirst = r.freqs
  /\ freqgrabs = Tile(r.freqs, 4)
  /\ ret = r.freqs
  /\ lextra = r.lextra /\ rextra = r.rextra /\ shifted_len = r.len
  /\ uncropped = r.uncropped
  /\ window = r.window
  /\ zoom_first = r.zoom_first /\ zoom = r.zoom /\ fft_len = r.fft_len

\* The state after FreqShowModel.__init__ and InstantSpectrogram.__init__
\* on a display ws pixels wide, the first read of n bins giving a spectrum
\* of FirstSpectra[n].
InitOn(ws, FirstSpectra) ==
  /\ width \in ws
  /\ min_auto_scale = FALSE /\ max_auto_scale = FALSE
  /\ min_intensity = -20 /\ max_intensity = 100
  /\ sdr_sample_rate = 460
  /\ lo_offset = 60
  /\ center_freq = 140903
  /\ sdr_center_freq = 140903 + 60
  /\ swap_iq = "True"
  /\ auto_gain = TRUE
  /\ fft_ave = 3
  /\ peak = "True"
  /\ filter = "nuttall"
  /\ checkfirst = 4
  /\ \E mags \in FirstSpectra[ReadLen(100)] :
       FirstFrame(get_data(100, -20, 100, None, mags))
  /\ freqslast = <<>>
  /\ reduced = <<>> /\ reduced_den = 1
  /\ reinit = FALSE
  /\ streak = <<>>
  /\ zero_line = NoLine
  /\ trace = <<>>
  /\ waterfall = Canvas(width, BLACK)
  /\ frames = <<>>
  /\ handler = "init"
  /\ reads = 1
  /\ running = TRUE
  /\ lastOp = "init"

NoColour == [err |-> "", pos |-> None, colour |-> <<>>]

\* no colour function is under test
GradIdle ==
  /\ grad_colors = WATERFALL_GRAD
  /\ grad_value = FlInt(0)
  /\ grad_colour = NoColour

\* ------------------------------------------------- FreqShowModel actions
\* an exception leaves the handler and ends the main loop of freqshow.py
\* after k calls of read_samples
CrashRead(op, k) ==
  /\ running' = FALSE
  /\ lastOp' = op
  /\ reads' = k

DoneRead(op, k) ==
  /\ running' = TRUE
  /\ lastOp' = op
  /\ reads' = k

Crash(op) == CrashRead(op, 0)

Done(op) == DoneRead(op, 0)

\* the fields get_data wrote, from its result r
Wrote(r) ==
  /\ zoom_fac' = r.zoom_fac
  /\ min_intensity' = r.min_intensity
  /\ max_intensity' = r.max_intensity
  /\ range' = r.range
  /\ ret' = r.freqs
  /\ lextra' = r.lextra /\ rextra' = r.rextra /\ shifted_len' = r.len
  /\ uncropped' = r.uncropped
  /\ window' = r.window
  /\ zoom_first' = r.zoom_first /\ zoom' = r.zoom /\ fft_len' = r.fft_len

\* get_data returned or raised, r its result
Returned(r) ==
  /\ Wrote(r)
  /\ IF r.err THEN CrashRead("get_data_error", 1) ELSE DoneRead("get_data", 1)

\* get_data called once; ioerr: read_samples raised
GetData(mags, ioerr) ==
  /\ running
  /\ IF ioerr
     THEN /\ zoom_fac' = ReadSpan(zoom_fac)
          /\ UNCHANGED <<min_intensity, max_intensity, range, obsVars>>
          /\ CrashRead("get_data_ioerror", 1)
     ELSE Returned(get_data(zoom_fac, min_intensity, max_intensity, range,
                            mags))
  /\ UNCHANGED <<width, filter, min_auto_scale, max_auto_scale,
                 sdr_sample_rate,
                 sdr_center_freq, center_freq, lo_offset, swap_iq, auto_gain,
                 fft_ave, peak, viewVars>>

\* set_center_freq(value); ioerr: the tuner raised
SetCenterFreq(value, ioerr) ==
  /\ running
  /\ center_freq' = value
  /\ IF ioerr
     THEN /\ UNCHANGED <<sdr_center_freq, min_intensity, max_intensity, range>>
          /\ Crash("set_center_freq_ioerror")
     ELSE LET c == ClearIntensity(min_auto_scale, max_auto_scale,
                                  min_intensity, max_intensity, range) IN
          /\ sdr_center_freq' = TunerFreq(value)
          /\ min_intensity' = c.min_intensity
          /\ max_intensity' = c.max_intensity
          /\ range' = c.range
          /\ Done("set_center_freq")
  /\ UNCHANGED <<width, filter, min_auto_scale, max_auto_scale,
                 sdr_sample_rate,
                 lo_offset, zoom_fac, swap_iq, auto_gain, fft_ave, peak,
                 viewVars, obsVars>>

\* set_gain(gain_db): 'AUTO' or a number; ioerr: the tuner raised, ignored
SetGain(auto, ioerr) ==
  /\ running
  /\ IF ~auto /\ ioerr
     THEN /\ UNCHANGED <<auto_gain, min_intensity, max_intensity, range>>
          /\ Done("set_gain_ioerror")
     ELSE LET c == ClearIntensity(min_auto_scale, max_auto_scale,
                                  min_intensity, max_intensity, range) IN
          /\ auto_gain' = auto
          /\ min_intensity' = c.min_intensity
          /\ max_intensity' = c.max_intensity
          /\ range' = c.range
          /\ Done("set_gain")
  /\ UNCHANGED <<width, filter, min_auto_scale, max_auto_scale,
                 sdr_sample_rate,
                 sdr_center_freq, center_freq, lo_offset, zoom_fac, swap_iq,
                 fft_ave, peak, viewVars, obsVars>>

\* the bounds after set_min_intensity(intensity): 'AUTO' or a number v
set_min_intensity(auto, v, maxAuto, mx, rg) ==
  ClearIntensity(auto, maxAuto, v, mx, rg)

\* the bounds after set_max_intensity(intensity)
set_max_intensity(auto, v, minAuto, mn, rg) ==
  ClearIntensity(minAuto, auto, mn, v, rg)

SetMinIntensity(auto, v) ==
  /\ running
  /\ LET c == set_min_intensity(auto, v, max_auto_scale, max_intensity,
                                range) IN
     /\ min_auto_scale' = auto
     /\ min_intensity' = c.min_intensity
     /\ max_intensity' = c.max_intensity
     /\ range' = c.range
  /\ Done("set_min_intensity")
  /\ UNCHANGED <<width, filter, max_auto_scale, sdr_sample_rate,
                 sdr_center_freq,
                 center_freq, lo_offset, zoom_fac, swap_iq, auto_gain,
                 fft_ave, peak, viewVars, obsVars>>

SetMaxIntensity(auto, v) ==
  /\ running
  /\ LET c == set_max_intensity(auto, v, min_auto_scale, min_intensity,
                                range) IN
     /\ max_auto_scale' = auto
     /\ min_intensity' = c.min_intensity
     /\ max_intensity' = c.max_intensity
     /\ range' = c.range
  /\ Done("set_max_intensity")
  /\ UNCHANGED <<width, filter, min_auto_scale, sdr_sample_rate,
                 sdr_center_freq,
                 center_freq, lo_offset, zoom_fac, swap_iq, auto_gain,
                 fft_ave, peak, viewVars, obsVars>>

\* WaterfallSpectrogram.clear_waterfall
ClearWaterfall ==
  /\ waterfall' = Canvas(width, MAIN_BG)
  /\ frames' = <<>>

\* SpectrogramBase.scale_up (step = 10) and scale_dn (step = -10): 5 dB
Scale(step) ==
  /\ running
  /\ IF min_auto_scale \/ max_auto_scale
     THEN /\ UNCHANGED <<min_intensity, max_intensity, range, waterfall,
                         frames>>
          /\ Done("scale_ignored")
     ELSE LET minv == 2 * Format0(min_intensity) + step
              maxv == 2 * Format0(max_intensity) + step
              c1 == set_min_intensity(FALSE, minv, FALSE, max_intensity,
                                      range)
              c2 == set_max_intensity(FALSE, maxv, FALSE, c1.min_intensity,
                                      c1.range)
          IN  /\ {minv, maxv} \subseteq (-ScaleDepth)..ScaleCeil
              /\ min_intensity' = c2.min_intensity
              /\ max_intensity' = c2.max_intensity
              /\ range' = c2.range
              /\ ClearWaterfall
              /\ Done(IF step > 0 THEN "scale_up" ELSE "scale_dn")
  /\ handler' = (IF step > 0 THEN "scale_up" ELSE "scale_dn")
  /\ UNCHANGED <<width, filter, min_auto_scale, max_auto_scale,
                 sdr_sample_rate,
                 sdr_center_freq, center_freq, lo_offset, zoom_fac, swap_iq,
                 auto_gain, fft_ave, peak, viewVars, obsVars>>

\* set_sample_rate(r); ioerr: the tuner raised, ignored
SetSampleRate(r, ioerr) ==
  /\ running
  /\ IF ~RateAccepted(r)
     THEN UNCHANGED sdr_sample_rate /\ Done("set_sample_rate_rejected")
     ELSE IF ioerr
     THEN UNCHANGED sdr_sample_rate /\ Done("set_sample_rate_ioerror")
     ELSE sdr_sample_rate' = r /\ Done("set_sample_rate")
  /\ UNCHANGED <<width, filter, min_auto_scale, max_auto_scale, min_intensity,
                 max_intensity, range, sdr_center_freq, center_freq,
                 lo_offset, zoom_fac, swap_iq, auto_gain, fft_ave, peak,
                 viewVars, obsVars>>

SetZoomFac(z) ==
  /\ running
  /\ zoom_fac' = z
  /\ Done("set_zoom_fac")
  /\ UNCHANGED <<width, filter, min_auto_scale, max_auto_scale, min_intensity,
                 max_intensity, range, sdr_sample_rate, sdr_center_freq,
                 center_freq, lo_offset, swap_iq, auto_gain, fft_ave, peak,
                 viewVars, obsVars>>

SetLoOffset(lo) ==
  /\ running
  /\ lo_offset' = lo
  /\ Done("set_lo_offset")
  /\ UNCHANGED <<width, filter, min_auto_scale, max_auto_scale, min_intensity,
                 max_intensity, range, sdr_sample_rate, sdr_center_freq,
                 center_freq, zoom_fac, swap_iq, auto_gain, fft_ave, peak,
                 viewVars, obsVars>>

SetSwapIq(b) ==
  /\ running
  /\ swap_iq' = b
  /\ Done("set_swap_iq")
  /\ UNCHANGED <<width, filter, min_auto_scale, max_auto_scale, min_intensity,
                 max_intensity, range, sdr_sample_rate, sdr_center_freq,
                 center_freq, lo_offset, zoom_fac, auto_gain, fft_ave, peak,
                 viewVars, obsVars>>

SetFftAve(n) ==
  /\ running
  /\ fft_ave' = IF n > 1 THEN n ELSE GetFftAveMethod
  /\ Done("set_fft_ave")
  /\ UNCHANGED <<width, filter, min_auto_scale, max_auto_scale, min_intensity,
                 max_intensity, range, sdr_sample_rate, sdr_center_freq,
                 center_freq, lo_offset, zoom_fac, swap_iq, auto_gain, peak,
                 viewVars, obsVars>>

\* SettingsList.fft_ave_accept(value): value is the dialog's string, the
\* digits of n, with a decimal point when dot.  A str compares greater than
\* every int, so set_fft_ave takes int(value), which raises on a '.'.
FftAveAccept(n, dot) ==
  /\ running
  /\ IF dot
     THEN UNCHANGED fft_ave /\ Crash("fft_ave_accept_error")
     ELSE fft_ave' = n /\ Done("fft_ave_accept")
  /\ UNCHANGED <<width, filter, min_auto_scale, max_auto_scale, min_intensity,
                 max_intensity, range, sdr_sample_rate, sdr_center_freq,
                 center_freq, lo_offset, zoom_fac, swap_iq, auto_gain, peak,
                 viewVars, obsVars>>

\* set_filter(name): any name is stored
SetFilter(name) ==
  /\ running
  /\ filter' = name
  /\ Done("set_filter")
  /\ UNCHANGED <<width, min_auto_scale, max_auto_scale, min_intensity,
                 max_intensity, range, sdr_sample_rate, sdr_center_freq,
                 center_freq, lo_offset, zoom_fac, swap_iq, auto_gain,
                 fft_ave, peak, viewVars, obsVars>>

SetPeak(b) ==
  /\ running
  /\ peak' = b
  /\ Done("set_peak")
  /\ UNCHANGED <<width, filter, min_auto_scale, max_auto_scale, min_intensity,
                 max_intensity, range, sdr_sample_rate, sdr_center_freq,
                 center_freq, lo_offset, zoom_fac, swap_iq, auto_gain,
                 fft_ave, viewVars, obsVars>>

\* ---------------------------------------------------- BooleanDialog
\* str(v) of a boolean or a string v
PyStr(v) ==
  IF v = "True" THEN "'True'" ELSE IF v = "False" THEN "'False'" ELSE v

\* what the user pressed last before ACCEPT
DialogPresses == {"none", "true", "false"}

\* self.value at accept_click: str(initial) from __init__ unless true_click
\* or false_click replaced it
BooleanDialogValue(initial, pressed) ==
  IF pressed = "true" THEN "True"
  ELSE IF pressed = "false" THEN "False"
  ELSE PyStr(initial)

\* SettingsList.peak_click, the dialog and peak_accept
PeakAccept(pressed) == SetPeak(BooleanDialogValue(peak, pressed))

\* SettingsList.swap_iq_click, the dialog and swap_iq_accept
SwapIqAccept(pressed) == SetSwapIq(BooleanDialogValue(swap_iq, pressed))

\* ------------------------------- InstantSpectrogram.render_spectrogram
\* the test that rebuilds the ring
NeedReinit_SizeOnly(firstSize, lastSize, check, ave) == firstSize # lastSize
NeedReinit(firstSize, lastSize, check, ave) ==
  firstSize # lastSize \/ check # ave + 1

\* for i in range(1, ave+1): np.copyto(ring[i-1], ring[i])
ShiftRing_Stay(ring, ave) == ring
ShiftRing(ring, ave) ==
  [k \in 1..Len(ring) |-> IF k <= ave THEN ring[k + 1] ELSE ring[k]]

\* np.copyto(dst, src): src of one value is broadcast
CopyTo(dst, src) ==
  IF Len(src) = 1 THEN [i \in 1..Len(dst) |-> src[1]] ELSE src

CopyFails(dst, src) == Len(src) # Len(dst) /\ Len(src) # 1

Column(ring, i) == [k \in 1..Len(ring) |-> ring[k][i]]

RECURSIVE FSum(_)
FSum(s) == IF Len(s) = 0 THEN 0 ELSE FAdd(s[1], FSum(Tail(s)))

\* np.max(ring, axis=0)
PeakReduce_DropNewest(ring) ==
  [i \in 1..Len(ring[1]) |-> NpMax(SubSeq(Column(ring, i), 1, Len(ring) - 1))]
PeakReduce(ring) == [i \in 1..Len(ring[1]) |-> NpMax(Column(ring, i))]

\* np.average(ring, axis=0) is AverageSum(ring)[i] / AverageDen(ring)
AverageSum(ring) == [i \in 1..Len(ring[1]) |-> FSum(Column(ring, i))]

AverageDen(ring) == Len(ring)

\* the ring, freqsfirst and checkfirst that the reduction runs on, after the
\* first get_data returned frame last and, on a rebuild, the second returned
\* frame fresh
RingFor(last, fresh, need) ==
  LET first == IF need THEN fresh ELSE freqsfirst
      built == IF need THEN Tile(fresh, fft_ave + 1) ELSE freqgrabs
      fails == fft_ave + 1 > Len(built) \/ CopyFails(built[1], last)
  IN  [freqsfirst |-> first,
       checkfirst |-> IF need THEN fft_ave + 1 ELSE checkfirst,
       err |-> fails,
       freqgrabs |-> IF fails THEN built
                     ELSE [ShiftRing(built, fft_ave) EXCEPT
                             ![fft_ave + 1] = CopyTo(built[1], last)]]

\* freqs = height - np.floor(((freqs - min_intensity) / range) * height) of
\* one bin, the reduced value being v / den: a number, or inf, -inf or nan
ScaleY(v, den, mn, rg) ==
  LET f == IF IsFinite(v) THEN FlDivide(FlInt(v), FlInt(den)) ELSE ToFl(v)
      p == NpTimes(NpDivide(NpMinus(f, ToFl(mn)), ToFl(rg)), FlInt(Height))
  IN  IF p.k = "nan" THEN NaN
      ELSE IF p.k = "inf" THEN (IF p.m > 0 THEN NegInf ELSE PosInf)
      ELSE Height - FlFloor(p)

ScaleYs(red, den, mn, rg) ==
  [i \in 1..Len(red) |-> ScaleY(red[i], den, mn, rg)]

\* abs(max_intensity) / (max_intensity - min_intensity) * height, the y of
\* the 0 dB line
ZeroLine(mn, mx) ==
  NpTimes(NpDivide(FlAbs(ToFl(mx)), NpMinus(ToFl(mx), ToFl(mn))),
          FlInt(Height))

\* ylast = freqs[0]; for i in range(1, width): y = freqs[i-1]; the line
\* from (i-1, ylast) to (i, y); ylast = y
Segments(ys) ==
  [i \in 1..(width - 1) |->
     <<i - 1, IF i = 1 THEN ys[1] ELSE ys[i - 1], i, ys[i]>>]

\* the drawing of the reduced spectrum red / den under the bounds of r,
\* after k device reads
Draw(r, red, den, k) ==
  /\ reduced' = red
  /\ reduced_den' = den
  /\ IF ~min_auto_scale /\ ~max_auto_scale
        /\ r.max_intensity = r.min_intensity
     THEN /\ UNCHANGED <<zero_line, trace>>
          /\ CrashRead("render_instant_zerodivision", k)
     ELSE IF Len(red) = 0 \/ Len(red) < width - 1
     THEN /\ UNCHANGED <<zero_line, trace>>
          /\ CrashRead("render_instant_error", k)
     ELSE /\ zero_line' = ZeroLine(r.min_intensity, r.max_intensity)
          /\ trace' = Segments(ScaleYs(red, den, r.min_intensity, r.range))
          /\ DoneRead("render_instant", k)

\* the frames the cycles since the last rebuild acquired, the newest last
\* and no more of them than the ring has slots
Acquired(last, need) ==
  IF need THEN <<>>
  ELSE IF Len(streak) < fft_ave + 1 THEN Append(streak, last)
  ELSE Append(Tail(streak), last)

\* what render_spectrogram does after its get_data calls left the model
\* fields in r (the result of the last call)
Reduce(r, last, fresh, need) ==
  LET g == RingFor(last, fresh, need) IN
  /\ Wrote(r)
  /\ freqslast' = last
  /\ reinit' = need
  /\ freqsfirst' = g.freqsfirst
  /\ checkfirst' = g.checkfirst
  /\ freqgrabs' = g.freqgrabs
  /\ streak' = IF g.err THEN streak ELSE Acquired(last, need)
  /\ IF g.err \/ peak \notin PyBools
     THEN /\ UNCHANGED <<reduced, reduced_den, zero_line, trace>>
          /\ CrashRead("render_instant_error", IF need THEN 2 ELSE 1)
     ELSE Draw(r,
               IF peak = "True" THEN PeakReduce(g.freqgrabs)
               ELSE AverageSum(g.freqgrabs),
               IF peak = "True" THEN 1 ELSE AverageDen(g.freqgrabs),
               IF need THEN 2 ELSE 1)

\* the rebuild's get_data returned r2 after the first returned frame last
RenderRebuilt(last, r2) ==
  IF r2.err
  THEN /\ Wrote(r2)
       /\ checkfirst' = fft_ave + 1
       /\ UNCHANGED <<freqsfirst, freqgrabs, freqslast, reduced, reduced_den,
                      reinit, streak, zero_line, trace>>
       /\ CrashRead("render_instant_error", 2)
  ELSE Reduce(r2, last, r2.freqs, TRUE)

\* the first get_data returned r1
RenderRead(r1, mags2, ioerr2) ==
  IF r1.err \/ fft_ave = GetFftAveMethod
  THEN /\ Wrote(r1)
       /\ UNCHANGED viewVars
       /\ CrashRead("render_instant_error", 1)
  ELSE IF ~NeedReinit(Len(freqsfirst), Len(r1.freqs), checkfirst, fft_ave)
  THEN Reduce(r1, r1.freqs, r1.freqs, FALSE)
  ELSE IF ioerr2
  THEN /\ Wrote([r1 EXCEPT !.zoom_fac = ReadSpan(r1.zoom_fac)])
       /\ checkfirst' = fft_ave + 1
       /\ UNCHANGED <<freqsfirst, freqgrabs, freqslast, reduced, reduced_den,
                      reinit, streak, zero_line, trace>>
       /\ CrashRead("render_instant_ioerror", 2)
  ELSE RenderRebuilt(r1.freqs,
                     get_data(r1.zoom_fac, r1.min_intensity,
                              r1.max_intensity, r1.range, mags2))

\* One display cycle of the instant view.  mags1, mags2: what the FFT gives
\* on the first and on the rebuild's read; ioerr1, ioerr2: the read raised.
RenderInstant(mags1, mags2, ioerr1, ioerr2) ==
  /\ running
  /\ IF ioerr1
     THEN /\ zoom_fac' = ReadSpan(zoom_fac)
          /\ UNCHANGED <<min_intensity, max_intensity, range, obsVars,
                         viewVars>>
          /\ CrashRead("render_instant_ioerror", 1)
     ELSE RenderRead(get_data(zoom_fac, min_intensity, max_intensity, range,
                              mags1),
                     mags2, ioerr2)
  /\ UNCHANGED <<width, filter, min_auto_scale, max_auto_scale,
                 sdr_sample_rate,
                 sdr_center_freq, center_freq, lo_offset, swap_iq, auto_gain,
                 fft_ave, peak>>

\* ------------------------------ WaterfallSpectrogram.render_spectrogram
\* Surface.scroll(0, -1): every row moves up by one, the top row is lost and
\* the bottom row keeps its pixels
Scroll(canvas) == Tail(canvas) \o <<canvas[Len(canvas)]>>

\* what the loop over the columns computes for the frame of get_data's
\* result r: the colour of each column, or the exception raised there
PixelRow(r) ==
  [i \in 1..width |->
     IF i > Len(r.freqs)
     THEN [err |-> "IndexError", pos |-> None, colour |-> BLACK]
     ELSE color_func(WATERFALL_GRAD,
                     Power(r.freqs[i], r.min_intensity, r.range))]

\* the first column whose colour raised, width + 1 if none did
FirstBad(row) ==
  IF \A i \in 1..Len(row) : row[i].err = "" THEN Len(row) + 1
  ELSE CHOOSE i \in 1..Len(row) :
         /\ row[i].err # ""
         /\ \A j \in 1..(i - 1) : row[j].err = ""

\* the bottom row old after set_at on the columns before column n
Painted(row, old, n) ==
  [i \in 1..Len(row) |-> IF i < n THEN row[i].colour ELSE old[i]]

LastRows(s, n) == IF Len(s) <= n THEN s ELSE SubSeq(s, Len(s) - n + 1, Len(s))

\* the scroll and the loop over the columns, row the colours of the frame
WaterPaint(r, row) ==
  /\ Wrote(r)
  /\ waterfall' = [Scroll(waterfall) EXCEPT
                     ![Height] = Painted(row, waterfall[Height], FirstBad(row))]
  /\ IF FirstBad(row) > Len(row)
     THEN /\ frames' = LastRows(Append(frames, Painted(row, row, FirstBad(row))),
                                Height)
          /\ DoneRead("render_waterfall", 1)
     ELSE /\ UNCHANGED frames
          /\ CrashRead("render_waterfall_pixel_error", 1)

\* get_data returned or raised, r its result
WaterRead(r) ==
  IF r.err
  THEN /\ Wrote(r)
       /\ UNCHANGED <<waterfall, frames>>
       /\ CrashRead("render_waterfall_error", 1)
  ELSE WaterPaint(r, PixelRow(r))

\* One display cycle of the waterfall view.  mags: what the FFT gives;
\* ioerr: read_samples raised.
RenderWaterfall(mags, ioerr) ==
  /\ running
  /\ handler' = "render_waterfall"
  /\ IF ioerr
     THEN /\ zoom_fac' = ReadSpan(zoom_fac)
          /\ UNCHANGED <<min_intensity, max_intensity, range, obsVars,
                         waterfall, frames>>
          /\ CrashRead("render_waterfall_ioerror", 1)
     ELSE WaterRead(get_data(zoom_fac, min_intensity, max_intensity, range,
                             mags))
  /\ UNCHANGED <<width, filter, min_auto_scale, max_auto_scale,
                 sdr_sample_rate,
                 sdr_center_freq, center_freq, lo_offset, swap_iq, auto_gain,
                 fft_ave, peak, viewVars>>

\* ------------------------------------------- the handlers of the views
\* model.tune_rate, 0.001 MHz
tune_rate == 2

\* SettingsList.centerfreq_accept
CenterFreqAccept(value, ioerr) ==
  /\ SetCenterFreq(value, ioerr)
  /\ handler' = "centerfreq_accept"
  /\ IF ioerr THEN UNCHANGED <<waterfall, frames>> ELSE ClearWaterfall

\* SettingsList.sample_accept
SampleAccept(r, ioerr) ==
  /\ SetSampleRate(r, ioerr)
  /\ handler' = "sample_accept"
  /\ ClearWaterfall

\* SettingsList.gain_accept
GainAccept(auto, ioerr) ==
  /\ SetGain(auto, ioerr)
  /\ handler' = "gain_accept"
  /\ ClearWaterfall

\* SettingsList.min_accept
MinAccept(auto, v) ==
  /\ SetMinIntensity(auto, v)
  /\ handler' = "min_accept"
  /\ ClearWaterfall

\* SettingsList.max_accept
MaxAccept(auto, v) ==
  /\ SetMaxIntensity(auto, v)
  /\ handler' = "max_accept"
  /\ ClearWaterfall

\* SpectrogramBase.up_center_freq, the '>' button
UpCenterFreq(ioerr) ==
  /\ SetCenterFreq(center_freq + tune_rate, ioerr)
  /\ handler' = "up_center_freq"
  /\ UNCHANGED <<waterfall, frames>>

\* SpectrogramBase.dn_center_freq, the '<' button
DnCenterFreq(ioerr) ==
  /\ SetCenterFreq(center_freq - tune_rate, ioerr)
  /\ handler' = "dn_center_freq"
  /\ UNCHANGED <<waterfall, frames>>

\* ------------------------------------------------------- specifications
TuneFreqs == {140903 + 2 * k : k \in 0..MaxTune}

\* The intensity scale: every operation that resets or edits the scale, and
\* get_data on a display two pixels wide.
Init ==
  /\ InitOn({2}, [n \in 1..SDR_SAMPLE_SIZE |-> ConstSpectra(n)])
  /\ GradIdle

DoGetData ==
  /\ UNCHANGED <<waterVars, gradVars>>
  /\ \E mags \in Spectra(ReadLen(zoom_fac)) : GetData(mags, FALSE)

DoSetCenterFreq ==
  /\ UNCHANGED <<waterVars, gradVars>>
  /\ \E value \in TuneFreqs, ioerr \in BOOLEAN : SetCenterFreq(value, ioerr)

DoSetGain ==
  /\ UNCHANGED <<waterVars, gradVars>>
  /\ \E auto \in BOOLEAN, ioerr \in BOOLEAN : SetGain(auto, ioerr)

DoSetMinIntensity ==
  /\ UNCHANGED <<waterVars, gradVars>>
  /\ \/ SetMinIntensity(TRUE, min_intensity)
     \/ \E v \in UserDb : SetMinIntensity(FALSE, v)

DoSetMaxIntensity ==
  /\ UNCHANGED <<waterVars, gradVars>>
  /\ \/ SetMaxIntensity(TRUE, max_intensity)
     \/ \E v \in UserDb : SetMaxIntensity(FALSE, v)

DoScaleUp ==
  /\ UNCHANGED gradVars
  /\ Scale(10)

DoScaleDn ==
  /\ UNCHANGED gradVars
  /\ Scale(-10)

Next ==
  \/ DoGetData
  \/ DoSetCenterFreq
  \/ DoSetGain
  \/ DoSetMinIntensity
  \/ DoSetMaxIntensity
  \/ DoScaleUp
  \/ DoScaleDn

Spec == Init /\ [][Next]_vars

\* The crop: get_data on every display width below SDR_SAMPLE_SIZE, under
\* every tuner setting.
InitCrop ==
  /\ InitOn(Widths, [n \in 1..SDR_SAMPLE_SIZE |-> ConstSpectra(n)])
  /\ GradIdle

CropGetData ==
  /\ UNCHANGED <<waterVars, gradVars>>
  /\ \E mags \in CropSpectra(ReadLen(zoom_fac)) : GetData(mags, FALSE)

CropSetSampleRate ==
  /\ UNCHANGED <<waterVars, gradVars>>
  /\ \E r \in SampleRates : SetSampleRate(r, FALSE)

CropSetZoomFac ==
  /\ UNCHANGED <<waterVars, gradVars>>
  /\ \E z \in ZoomFacs : SetZoomFac(z)

CropSetLoOffset ==
  /\ UNCHANGED <<waterVars, gradVars>>
  /\ \E lo \in LoOffsets : SetLoOffset(lo)

CropSetSwapIq ==
  /\ UNCHANGED <<waterVars, gradVars>>
  /\ \E b \in PyBools \cup DialogStrs : SetSwapIq(b)

NextCrop ==
  \/ CropGetData
  \/ CropSetSampleRate
  \/ CropSetZoomFac
  \/ CropSetLoOffset
  \/ CropSetSwapIq

SpecCrop == InitCrop /\ [][NextCrop]_vars

\* The tuner settings under auto scaling: the sample rate and the zoom span
\* change between frames.
TunerGetData ==
  /\ UNCHANGED <<waterVars, gradVars>>
  /\ \E mags \in Spectra(ReadLen(zoom_fac)), ioerr \in BOOLEAN :
       GetData(mags, ioerr)

TunerSetMinIntensity ==
  /\ UNCHANGED <<waterVars, gradVars>>
  /\ SetMinIntensity(TRUE, min_intensity)

TunerSetMaxIntensity ==
  /\ UNCHANGED <<waterVars, gradVars>>
  /\ SetMaxIntensity(TRUE, max_intensity)

TunerSetSampleRate ==
  /\ UNCHANGED <<waterVars, gradVars>>
  /\ \E r \in SampleRates, ioerr \in BOOLEAN : SetSampleRate(r, ioerr)

TunerSetZoomFac ==
  /\ UNCHANGED <<waterVars, gradVars>>
  /\ \E z \in ZoomFacs : SetZoomFac(z)

TunerSetFilter ==
  /\ UNCHANGED <<waterVars, gradVars>>
  /\ \E name \in FilterNames : SetFilter(name)

NextTuner ==
  \/ TunerGetData
  \/ TunerSetMinIntensity
  \/ TunerSetMaxIntensity
  \/ TunerSetSampleRate
  \/ TunerSetZoomFac
  \/ TunerSetFilter

SpecTuner == Init /\ [][NextTuner]_vars

\* The history ring of the instant view.
InitView ==
  /\ InitOn({2}, [n \in 1..SDR_SAMPLE_SIZE |-> StepSpectra(n)])
  /\ GradIdle

\* the cycle whose first read gives mags1 goes on to the rebuild's read
SecondRead(mags1) ==
  LET r1 == get_data(zoom_fac, min_intensity, max_intensity, range, mags1)
  IN  ~r1.err
      /\ NeedReinit(Len(freqsfirst), Len(r1.freqs), checkfirst, fft_ave)

\* the second read is drawn only for the cycles that make it
ViewRender ==
  /\ UNCHANGED <<waterVars, gradVars>>
  /\ \E mags1 \in StepSpectra(ReadLen(zoom_fac)), ioerr1 \in BOOLEAN :
       IF ~ioerr1 /\ SecondRead(mags1)
       THEN \E mags2 \in StepSpectra(ReadLen(zoom_fac)), ioerr2 \in BOOLEAN :
              RenderInstant(mags1, mags2, ioerr1, ioerr2)
       ELSE RenderInstant(mags1, mags1, ioerr1, FALSE)

ViewSetFftAve ==
  /\ UNCHANGED <<waterVars, gradVars>>
  /\ \E n \in 0..MaxFftAve : SetFftAve(n)

ViewFftAveAccept ==
  /\ UNCHANGED <<waterVars, gradVars>>
  /\ \E n \in 0..MaxFftAve, dot \in BOOLEAN : FftAveAccept(n, dot)

ViewSetPeak ==
  /\ UNCHANGED <<waterVars, gradVars>>
  /\ \E b \in PyBools \cup {"'True'"} : SetPeak(b)

NextView ==
  \/ ViewRender
  \/ ViewSetFftAve
  \/ ViewFftAveAccept
  \/ ViewSetPeak

SpecView == InitView /\ [][NextView]_vars

\* The waterfall view and the handlers that change what it displays.
\* a flat spectrum, one with a step, and one with an empty bin
WaterSpectra(n) ==
  {[i \in 1..n |-> IF i % 2 = 1 THEN ab[1] ELSE ab[2]] :
     ab \in {<<10, 10>>, <<1, 10>>, <<10, 0>>}}

InitWater ==
  /\ InitOn({2}, [n \in 1..SDR_SAMPLE_SIZE |-> ConstSpectra(n)])
  /\ GradIdle

WaterRender ==
  /\ UNCHANGED gradVars
  /\ \E mags \in WaterSpectra(ReadLen(zoom_fac)), ioerr \in BOOLEAN :
       RenderWaterfall(mags, ioerr)

WaterCenterFreqAccept ==
  /\ UNCHANGED gradVars
  /\ \E ioerr \in BOOLEAN : CenterFreqAccept(140903, ioerr)

WaterSampleAccept ==
  /\ UNCHANGED gradVars
  /\ \E r \in {460, 1000} : SampleAccept(r, FALSE)

WaterGainAccept ==
  /\ UNCHANGED gradVars
  /\ \E ioerr \in BOOLEAN : GainAccept(FALSE, ioerr)

WaterMinAccept ==
  /\ UNCHANGED gradVars
  /\ \/ MinAccept(TRUE, min_intensity)
     \/ MinAccept(FALSE, -20)

WaterMaxAccept ==
  /\ UNCHANGED gradVars
  /\ \/ MaxAccept(TRUE, max_intensity)
     \/ MaxAccept(FALSE, 100)

WaterScaleUp ==
  /\ UNCHANGED gradVars
  /\ Scale(10)

WaterScaleDn ==
  /\ UNCHANGED gradVars
  /\ Scale(-10)

WaterUpCenterFreq ==
  /\ UNCHANGED gradVars
  /\ center_freq + tune_rate <= 140903 + tune_rate * MaxTune
  /\ \E ioerr \in BOOLEAN : UpCenterFreq(ioerr)

WaterDnCenterFreq ==
  /\ UNCHANGED gradVars
  /\ center_freq - tune_rate >= 140903
  /\ \E ioerr \in BOOLEAN : DnCenterFreq(ioerr)

NextWater ==
  \/ WaterRender
  \/ WaterCenterFreqAccept
  \/ WaterSampleAccept
  \/ WaterGainAccept
  \/ WaterMinAccept
  \/ WaterMaxAccept
  \/ WaterScaleUp
  \/ WaterScaleDn
  \/ WaterUpCenterFreq
  \/ WaterDnCenterFreq

SpecWater == InitWater /\ [][NextWater]_vars

\* The trace of the instant view: display cycles between changes of the
\* intensity bounds and retunes.
TraceSpectra(n) ==
  {[i \in 1..n |-> IF i % 2 = 1 THEN 1 ELSE 10],
   [i \in 1..n |-> IF i % 2 = 1 THEN 10 ELSE 100]}

InitTrace ==
  /\ InitOn({3}, [n \in 1..SDR_SAMPLE_SIZE |-> TraceSpectra(n)])
  /\ GradIdle

TraceRender ==
  /\ UNCHANGED <<waterVars, gradVars>>
  /\ \E mags1 \in TraceSpectra(ReadLen(zoom_fac)),
        mags2 \in TraceSpectra(ReadLen(zoom_fac)) :
       RenderInstant(mags1, mags2, FALSE, FALSE)

TraceSetMinIntensity ==
  /\ UNCHANGED <<waterVars, gradVars>>
  /\ \E auto \in BOOLEAN : SetMinIntensity(auto, 1)

TraceSetMaxIntensity ==
  /\ UNCHANGED <<waterVars, gradVars>>
  /\ \E auto \in BOOLEAN : SetMaxIntensity(auto, 100)

TraceSetCenterFreq ==
  /\ UNCHANGED <<waterVars, gradVars>>
  /\ SetCenterFreq(center_freq, FALSE)

NextTrace ==
  \/ TraceRender
  \/ TraceSetMinIntensity
  \/ TraceSetMaxIntensity
  \/ TraceSetCenterFreq

SpecTrace == InitTrace /\ [][NextTrace]_vars

\* The Peak and Swap I&Q dialogs of the settings list between display
\* cycles of the instant view.
DialogRender ==
  /\ UNCHANGED <<waterVars, gradVars>>
  /\ \E mags1 \in TraceSpectra(ReadLen(zoom_fac)),
        mags2 \in TraceSpectra(ReadLen(zoom_fac)) :
       RenderInstant(mags1, mags2, FALSE, FALSE)

DialogPeakAccept ==
  /\ UNCHANGED <<waterVars, gradVars>>
  /\ \E pressed \in DialogPresses : PeakAccept(pressed)

DialogSwapIqAccept ==
  /\ UNCHANGED <<waterVars, gradVars>>
  /\ \E pressed \in DialogPresses : SwapIqAccept(pressed)

NextDialog ==
  \/ DialogRender
  \/ DialogPeakAccept
  \/ DialogSwapIqAccept

SpecDialog == InitTrace /\ [][NextDialog]_vars

\* The colour function of a gradient on its own: a gradient and a value are
\* drawn, and the function gradient_func returns is applied once.
InitGrad ==
  /\ InitOn({2}, [n \in 1..SDR_SAMPLE_SIZE |-> ConstSpectra(n)])
  /\ grad_colors \in Gradients
  /\ grad_value \in GradValues
  /\ grad_colour = NoColour

GradApply ==
  /\ lastOp = "init"
  /\ grad_colour' = color_func(grad_colors, grad_value)
  /\ lastOp' = "color_func"
  /\ UNCHANGED <<modelVars, viewVars, obsVars, waterVars, grad_colors,
                 grad_value, reads, running>>

NextGrad == GradApply

SpecGrad == InitGrad /\ [][NextGrad]_vars

\* ----------------------------------------------------------------- claims
\* every auto bound and range are None
Cleared ==
  /\ min_auto_scale => min_intensity = None
  /\ max_auto_scale => max_intensity = None
  /\ range = None

ResetOps ==
  {"set_center_freq", "set_gain", "set_min_intensity", "set_max_intensity"}

\* C1 (SpecCrop): with swap_iq a boolean, every completed get_data on a
\* display narrower than SDR_SAMPLE_SIZE returns exactly width values, and
\* whenever the shifted spectrum is longer than the display the crop offsets
\* satisfy lextra >= 0, rextra >= 1 and lextra + width + rextra = len.
C1_ReturnsWidth ==
  (lastOp = "get_data" /\ swap_iq \in PyBools /\ width < SDR_SAMPLE_SIZE) =>
    /\ Len(ret) = width
    /\ shifted_len > width =>
         /\ lextra >= 0
         /\ rextra >= 1
         /\ lextra + width + rextra = shifted_len

\* C2 (Spec): while an axis stays in auto mode with its bound resolved, no
\* step raises min_intensity or lowers max_intensity; and after every
\* get_data an auto min_intensity is at most the minimum of the returned
\* frame and an auto max_intensity at least its maximum.
C2_Monotonic ==
  /\ [](lastOp = "get_data" =>
          /\ min_auto_scale => min_intensity <= NpMin(ret)
          /\ max_auto_scale => max_intensity >= NpMax(ret))
  /\ [][/\ (min_auto_scale /\ min_auto_scale' /\ min_intensity # None
              /\ min_intensity' # None) => min_intensity' <= min_intensity
        /\ (max_auto_scale /\ max_auto_scale' /\ max_intensity # None
              /\ max_intensity' # None) => max_intensity' >= max_intensity
       ]_vars

\* both bounds are auto and were widened by an earlier frame: each lies
\* strictly outside the frame just returned
C2_Witness ==
  /\ lastOp = "get_data"
  /\ min_auto_scale /\ max_auto_scale
  /\ min_intensity < NpMin(ret)
  /\ max_intensity > NpMax(ret)

\* C3 (Spec): after set_center_freq, set_gain without a device error,
\* set_min_intensity or set_max_intensity, every bound in auto mode is None
\* and range is None; and once they are, they stay so over every step that
\* is not a get_data call.
C3_ResetClears ==
  /\ [](lastOp \in ResetOps => Cleared)
  /\ [][(Cleared /\ lastOp' # "get_data") => Cleared']_vars

\* set_gain cleared an auto minimum next to a fixed maximum
C3_Witness ==
  /\ lastOp = "set_gain"
  /\ min_auto_scale /\ ~max_auto_scale
  /\ min_intensity = None /\ max_intensity = 120 /\ range = None

\* C4 (SpecTuner): after set_sample_rate took a new rate, and after
\* set_zoom_fac, every bound in auto mode is None and range is None.
C4_RateAndZoomReset ==
  lastOp \in {"set_sample_rate", "set_zoom_fac"} => Cleared

\* C5 (Spec): a get_data call leaves min_intensity as it was when
\* min_auto_scale is False, and max_intensity as it was when max_auto_scale
\* is False.
C5_FixedUntouched ==
  [][lastOp' = "get_data" =>
       /\ ~min_auto_scale => min_intensity' = min_intensity
       /\ ~max_auto_scale => max_intensity' = max_intensity
    ]_vars

\* get_data returned a frame that goes below a fixed minimum, the maximum
\* being auto
C5_Witness ==
  /\ lastOp = "get_data"
  /\ ~min_auto_scale /\ max_auto_scale
  /\ NpMin(ret) < min_intensity
  /\ max_intensity = NpMax(ret)

\* C9 (Spec): min_intensity, max_intensity and range are never -inf, inf or
\* NaN, and no value get_data returns is.
C9_Finite ==
  /\ {min_intensity, max_intensity, range} \cap {NegInf, PosInf, NaN} = {}
  /\ \A i \in 1..Len(ret) : IsFinite(ret[i])

\* C10 (Spec): whenever both bounds are resolved, max_intensity is above
\* min_intensity.
C10_MaxAboveMin ==
  (min_intensity # None /\ max_intensity # None) =>
    max_intensity > min_intensity

\* the sum of bin i over the slots 1..k of the ring
RECURSIVE SlotSum(_, _)
SlotSum(i, k) == IF k = 0 THEN 0 ELSE freqgrabs[k][i] + SlotSum(i, k - 1)

\* C6 (SpecView): after a completed render_spectrogram of the instant view
\* the reduced spectrum is as long as the frames; with peak True every bin
\* is the largest value of that bin over the slots 1..fft_ave+1 of the ring;
\* with peak False it is the sum of that bin over those slots divided by
\* fft_ave+1 (-inf as soon as one slot holds -inf).
C6_Reduction ==
  lastOp = "render_instant" =>
    /\ Len(reduced) = Len(freqslast)
    /\ \A i \in 1..Len(reduced) :
         IF peak = "True"
         THEN /\ reduced_den = 1
              /\ \A k \in 1..(fft_ave + 1) : freqgrabs[k][i] <= reduced[i]
              /\ \E k \in 1..(fft_ave + 1) : freqgrabs[k][i] = reduced[i]
         ELSE /\ reduced_den = fft_ave + 1
              /\ IF \E k \in 1..(fft_ave + 1) : freqgrabs[k][i] = NegInf
                 THEN reduced[i] = NegInf
                 ELSE reduced[i] = SlotSum(i, fft_ave + 1)

\* an average over slots that differ in some bin
C6_Witness ==
  /\ lastOp = "render_instant"
  /\ peak = "False"
  /\ \E i \in 1..Len(reduced) :
       /\ IsFinite(reduced[i])
       /\ freqgrabs[1][i] # freqgrabs[fft_ave + 1][i]

\* C7 (SpecView): whenever render_spectrogram has reduced the ring, the ring
\* has exactly fft_ave+1 slots and every slot is as long as the frame that
\* cycle acquired.
C7_RingShape ==
  lastOp \in {"render_instant", "render_instant_zerodivision"} =>
    /\ Len(freqgrabs) = fft_ave + 1
    /\ \A k \in 1..Len(freqgrabs) : Len(freqgrabs[k]) = Len(freqslast)

\* a cycle that rebuilt the ring for a smaller depth than the initial 3
C7_Witness ==
  /\ lastOp = "render_instant"
  /\ reinit
  /\ fft_ave = 2
  /\ Len(freqgrabs) = 3

\* C8 (SpecView): after a cycle that rebuilt the ring, every slot holds the
\* frame acquired for the rebuild (freqsfirst).
C8_FreshOnly ==
  (lastOp = "render_instant" /\ reinit) =>
    \A k \in 1..Len(freqgrabs) : freqgrabs[k] = freqsfirst

\* C12 (SpecTuner): a window name that is not one of the nine recognised
\* shapes is rejected: it is never stored as the model's filter, and no
\* get_data completes having multiplied the samples by the constant 1 in
\* place of a window.
C12_UnknownWindowRejected ==
  /\ filter \in {"kaiser", "boxcar", "hann", "hamming", "blackman",
                 "blackmanharris", "bartlett", "barthann", "nuttall"}
  /\ lastOp = "get_data" => window # "1"

C14_FftLength ==
  lastOp = "get_data" =>
    /\ zoom + 2 <= SDR_SAMPLE_SIZE
    /\ fft_len = zoom + 2

\* C16 (SpecView): every completed display cycle of the instant view made
\* exactly one device read, the cycle that rebuilt the ring included.
C16_OneReadPerCycle ==
  lastOp = "render_instant" => reads = 1

\* C20 (SpecCrop): with swap_iq a boolean, a completed get_data whose
\* shifted spectrum is longer than the display has extra = floor((len -
\* width) / 2) and the LO shift in whole pixels; when extra > |shift| the
\* left offset is extra + shift under swap_iq and extra - shift without it,
\* otherwise it is extra, with rextra - lextra 0 or 1; and the frame
\* returned is positions lextra .. lextra + width - 1 of the spectrum.
C20_CropWindow ==
  (lastOp = "get_data" /\ swap_iq \in PyBools /\ shifted_len > width) =>
    LET extra == (shifted_len - width) \div 2
        num == lo_offset * (zoom + 2)
        shift == IF num >= 0 THEN num \div sdr_sample_rate
                 ELSE -((-num) \div sdr_sample_rate)
        mag == IF shift < 0 THEN -shift ELSE shift
    IN  /\ (extra > mag /\ swap_iq = "True") => lextra = extra + shift
        /\ (extra > mag /\ swap_iq = "False") => lextra = extra - shift
        /\ extra <= mag => (lextra = extra /\ rextra - lextra \in {0, 1})
        /\ rextra = shifted_len - (lextra + width)
        /\ Len(ret) = width
        /\ \A i \in 1..width : ret[i] = Db(uncropped[lextra + i])

\* a crop at the boundary: the LO shift is as large as the margin, and is
\* ignored, on a spectrum that tells the positions apart
C20_Witness ==
  /\ lastOp = "get_data" /\ swap_iq \in PyBools /\ shifted_len > width
  /\ lo_offset # 0
  /\ lextra = (shifted_len - width) \div 2
  /\ lextra * sdr_sample_rate <= lo_offset * (zoom + 2)
  /\ (lextra + 1) * sdr_sample_rate > lo_offset * (zoom + 2)
  /\ \E i \in 1..Len(uncropped) : uncropped[i] # uncropped[1]

\* the colour function was applied to the power of a pixel of -50 dB under
\* min_intensity = -60 dB and range = 60 dB, on the waterfall's gradient
C18_Case ==
  /\ lastOp = "color_func"
  /\ grad_colors = WATERFALL_GRAD
  /\ grad_value = Power(-100, -120, 120)

\* C18 as stated (SpecGrad): the pixel of a -50 dB intensity under
\* min_intensity = -60 dB and max_intensity = 0 dB is painted (0, 128, 255).
C18_Original == C18_Case => grad_colour.colour = <<0, 128, 255>>

\* C18 (SpecGrad): the pixel of a -50 dB intensity under min_intensity =
\* -60 dB and max_intensity = 0 dB is interpolated in segment 0 at x = 0.5
\* with each channel floored, which paints (0, 127, 255): the green channel
\* is floor(127.5).
C18_FlooredMidpoint ==
  C18_Case =>
    /\ grad_colour.err = ""
    /\ grad_colour.pos = 0
    /\ GradX(grad_colors, grad_value) = FlRatio(1, 2)
    /\ grad_colour.colour = <<0, 127, 255>>

C18_Witness == C18_Case /\ grad_colour.colour = <<0, 127, 255>>

Between(x, a, b) == (a <= x /\ x <= b) \/ (b <= x /\ x <= a)

\* C19 (SpecGrad): the colour function of a gradient of two or more colours
\* returns the first colour for every value <= 0 and the last colour for
\* every value >= 1; for 0 < value < 1 it returns a colour, its segment
\* index pos is in 0 .. count - 2, and every channel lies between the
\* channels of colors[pos] and colors[pos + 1].
C19_GradientRange ==
  lastOp = "color_func" =>
    /\ FlLessEq(grad_value, FlInt(0)) =>
         grad_colour.err = "" /\ grad_colour.colour = grad_colors[1]
    /\ FlLessEq(FlInt(1), grad_value) =>
         /\ grad_colour.err = ""
         /\ grad_colour.colour = grad_colors[Len(grad_colors)]
    /\ (FlLess(FlInt(0), grad_value) /\ FlLess(grad_value, FlInt(1))) =>
         /\ grad_colour.err = ""
         /\ grad_colour.pos \in 0..(Len(grad_colors) - 2)
         /\ \A ch \in 1..3 :
              Between(grad_colour.colour[ch],
                      grad_colors[grad_colour.pos + 1][ch],
                      grad_colors[grad_colour.pos + 2][ch])

\* C11 (SpecWater): a display cycle of the waterfall in which read_samples
\* raised leaves the render loop running.
C11_ReadFailureSurvived == lastOp = "render_waterfall_ioerror" => running

\* the handlers that set the center frequency, the sample rate, the gain or
\* an intensity bound
ChangeHandlers ==
  {"centerfreq_accept", "sample_accept", "gain_accept", "min_accept",
   "max_accept", "scale_up", "scale_dn", "up_center_freq", "dn_center_freq"}

changedVars ==
  <<center_freq, sdr_sample_rate, auto_gain, min_auto_scale, max_auto_scale,
    min_intensity, max_intensity>>

\* C15 (SpecWater): every handler that returns having changed the center
\* frequency, the sample rate, the gain or an intensity bound leaves the
\* canvas without a painted row: filled with the background colour, or as
\* created when nothing was painted yet.
C15_ChangeClears ==
  [][(handler' \in ChangeHandlers /\ running' /\ changedVars' # changedVars)
       => /\ frames' = <<>>
          /\ waterfall' \in {Canvas(width, MAIN_BG), Canvas(width, BLACK)}
    ]_vars

\* the colour row of the frame the last get_data returned
LastColourRow ==
  [i \in 1..width |->
     color_func(WATERFALL_GRAD, Power(ret[i], min_intensity, range))]

\* C17 (SpecWater): after a render_spectrogram of the waterfall that got its
\* frame, the bottom rows of the canvas are the colour rows of the frames
\* rendered since the last clear (at most height of them), the newest at the
\* bottom, and every column of the bottom row holds
\* color_func(clamp((v - min_intensity) / range, 0, 1)).
C17_ScrolledRows ==
  lastOp \in {"render_waterfall", "render_waterfall_pixel_error"} =>
    /\ \A j \in 1..Len(frames) :
         waterfall[Height - Len(frames) + j] = frames[j]
    /\ \A i \in 1..width :
         /\ LastColourRow[i].err = ""
         /\ waterfall[Height][i] = LastColourRow[i].colour

\* C22 (Spec): whenever range is not None both bounds are resolved and range
\* is max_intensity - min_intensity of the current bounds; after every
\* completed get_data min_intensity, max_intensity and range are all not
\* None; and no step changes a bound and leaves a range computed from the
\* old one.
C22_RangeConsistent ==
  /\ [](range # None =>
          /\ min_intensity # None
          /\ max_intensity # None
          /\ range = FSub(max_intensity, min_intensity))
  /\ [](lastOp = "get_data" =>
          min_intensity # None /\ max_intensity # None /\ range # None)
  /\ [][(min_intensity' # min_intensity \/ max_intensity' # max_intensity) =>
          (range' = None \/ range' = FSub(max_intensity', min_intensity'))
       ]_vars

\* a fixed bound was just changed by its setter after a frame had resolved
\* the range: the other bound is still there and the range is gone
C22_Witness ==
  /\ lastOp = "set_min_intensity"
  /\ ~min_auto_scale /\ ~max_auto_scale
  /\ min_intensity = 1
  /\ max_intensity # None
  /\ range = None

\* C25 (SpecView): after any calls of set_fft_ave, directly or from
\* SettingsList.fft_ave_accept, fft_ave is an integer of at least 2.
C25_DepthAtLeastTwo ==
  fft_ave # GetFftAveMethod /\ fft_ave >= 2

\* C27 (SpecCrop): on every completed get_data that crops, with swap_iq a
\* boolean, the LO pixel shift is applied exactly when the tuner sits at
\* center_freq + lo_offset for the current lo_offset, and with an offset set
\* the crop is left symmetric exactly when the tuner sits at center_freq.
C27_ShiftMatchesTuner ==
  (lastOp = "get_data" /\ swap_iq \in PyBools /\ shifted_len > width) =>
    LET extra == (shifted_len - width) \div 2
        num == lo_offset * (zoom + 2)
        mag == (IF num >= 0 THEN num ELSE -num) \div sdr_sample_rate
        applied == extra > mag
    IN  /\ applied <=> sdr_center_freq = center_freq + lo_offset
        /\ lo_offset # 0 => (~applied <=> sdr_center_freq = center_freq)

\* C21 (SpecView): a completed display cycle that did not rebuild the ring
\* leaves in slot k what slot k+1 held, for every slot but the last, and in
\* the last slot the frame it acquired, so the oldest frame is gone; and
\* once as many such cycles as the ring has slots ran since the last
\* rebuild, the ring holds exactly the frames they acquired, in order.
C21_RingFifo ==
  /\ [][(lastOp' = "render_instant" /\ ~reinit') =>
          /\ Len(freqgrabs') = fft_ave + 1
          /\ Len(freqgrabs) = fft_ave + 1
          /\ \A k \in 1..fft_ave : freqgrabs'[k] = freqgrabs[k + 1]
          /\ freqgrabs'[fft_ave + 1] = ret'
       ]_vars
  /\ [](Len(streak) = Len(freqgrabs) => freqgrabs = streak)

\* the ring was filled by cycles that acquired different frames
C21_Witness ==
  /\ lastOp = "render_instant" /\ ~reinit
  /\ Len(streak) = fft_ave + 1
  /\ freqgrabs = streak
  /\ fft_ave >= 2
  /\ streak[1] # streak[2]
  /\ streak[2] # streak[Len(streak)]

\* the y of every bin of the reduced spectrum under the current bounds
TraceYs == ScaleYs(reduced, reduced_den, min_intensity, range)

\* C23 (SpecTrace): a completed display cycle draws, for every i in
\* 1..width-1, the segment from (i-1, y[i-1]) to (i, y[i]), y[i] being
\* height - floor(((s[i] - min_intensity) / range) * height) of bin i, so
\* that every bin, the last included, is an endpoint at its own x.
C23_TraceSegments ==
  lastOp = "render_instant" =>
    /\ Len(trace) = width - 1
    /\ \A i \in 1..(width - 1) :
         trace[i] = <<i - 1, TraceYs[i], i, TraceYs[i + 1]>>

\* C24 (SpecTrace): a completed display cycle draws the 0 dB line only when
\* min_intensity <= 0 <= max_intensity, and the line it draws is, up to the
\* flooring, at the trace y of a bin of 0 dB.
C24_ZeroLine ==
  (lastOp = "render_instant" /\ zero_line.k # "none") =>
    /\ min_intensity <= 0 /\ 0 <= max_intensity
    /\ zero_line.k = "num"
    /\ ScaleY(0, 1, min_intensity, range) - FlFloor(zero_line) \in {0, 1}

\* C26 (SpecDialog): after any accepts of the Peak and Swap I&Q dialogs
\* model.peak and model.swap_iq are booleans.
C26_Booleans ==
  peak \in PyBools /\ swap_iq \in PyBools

\* C28 (SpecTrace): with both bounds in auto mode, every reduced value a
\* completed display cycle drew lies within [min_intensity, max_intensity]
\* and every y of its trace within 0..height.
C28_TraceInRange ==
  (lastOp = "render_instant" /\ min_auto_scale /\ max_auto_scale) =>
    /\ \A i \in 1..(width - 1) :
         /\ min_intensity * reduced_den <= reduced[i]
         /\ reduced[i] <= max_intensity * reduced_den
    /\ \A i \in 1..Len(trace) :
         trace[i][2] \in 0..Height /\ trace[i][4] \in 0..Height
====
